---- MODULE Spec2Model ----
(***************************************************************************)
(* Student registration web form (w.py): the line-delimited JSON record    *)
(* store (read_records / write_records), the form submit handler that      *)
(* reconciles a submission with the stored records, the delete dialogue    *)
(* and the login session.                                                  *)
(*                                                                         *)
(* Text is a sequence of one-character strings so that str.strip() is a    *)
(* real computation.  A dict is a function whose DOMAIN is its key set.    *)
(* A file is [exists, lines]; a line is <<"json", dict>>, <<"malformed">>, *)
(* <<"blank">>, <<"undecodable">> (bytes that are not UTF-8) or <<"nul">>  *)
(* (the NUL bytes of a hole, which run into the line that follows).        *)
(***************************************************************************)
EXTENDS Integers, Sequences, FiniteSets, TLC

VARIABLES fs, users, dataDirOk, now, session, pc, job, writes

vars == <<fs, users, dataDirOk, now, session, pc, job, writes>>

(* ------------------------------ bounds -------------------------------- *)
\* largest value of the wall clock, in whole seconds
MaxTime == 1
\* the number of write_records calls explored in one behaviour
MaxWrites == 2

(* ------------------------- program constants -------------------------- *)
WRITE_DATA_DIR == "/data"
READONLY_DATA_DIR == "BASE_DIR/data"

\* Python's None, and the marker of a key that st.session_state lacks
None == "<None>"
Missing == "<missing>"
EmptyDict == [k \in {} |-> None]
\* None where a text (a username) is expected
NoUser == <<"<None>">>

(* ------------------------------- text --------------------------------- *)
RECURSIVE LStrip(_)
LStrip(t) == IF t # <<>> /\ Head(t) = " " THEN LStrip(Tail(t)) ELSE t

RECURSIVE RStrip(_)
RStrip(t) ==
    IF t # <<>> /\ t[Len(t)] = " " THEN RStrip(SubSeq(t, 1, Len(t) - 1)) ELSE t

\* str.strip()
Strip(t) == RStrip(LStrip(t))

\* dict.get(key, default)
Get(d, k, default) == IF k \in DOMAIN d THEN d[k] ELSE default

\* str(x) as used on identifiers: a string is itself, None prints as "None"
Str(x) == IF x = None THEN "None" ELSE x

\* truth value of an identifier: None and "" are false
Truthy(x) == x # None /\ x # ""

\* datetime.now().isoformat() at clock value t
IsoFormat(t) == "T" \o ToString(t)

\* str(int(time.time())) at clock value t
TimeId(t) == ToString(t)

(* ------------------------- credential store --------------------------- *)
\* hash_password: the digest of a password (sha256 is taken as injective)
hash_password(plain) == "sha256:" \o plain

\* load_users(): the content of users.json
load_users == users

\* get_user_info: users.get(username); the empty dict stands for None, both
\* are false in "if not user_info" and in "if info"
get_user_info(username) ==
    IF username \in DOMAIN load_users THEN load_users[username] ELSE EmptyDict

\* verify_user
verify_user(username, password) ==
    LET user == get_user_info(username)
    IN  IF user = EmptyDict
        THEN FALSE
        ELSE Get(user, "password_hash", None) = hash_password(password)

(* ----------------------------- file names ----------------------------- *)
\* os.path.join(dir, filename)
Join(dir, filename) == <<dir>> \o filename

\* filepath + ".tmp"
TmpOf(filepath) == filepath \o <<".tmp">>

DefaultFileName(username) == <<"students_">> \o username \o <<".json">>

FileNameFor(username) ==
    LET info == get_user_info(username)
    IN  IF info # EmptyDict
        THEN Get(info, "file", DefaultFileName(username))
        ELSE DefaultFileName(username)

NoFile == [exists |-> FALSE, lines |-> <<>>]
FileOf(lines) == [exists |-> TRUE, lines |-> lines]

(* ---------------------------- record store ---------------------------- *)
\* json.dump(r, f) followed by f.write("\n"): one line holding the object
JsonLine(r) == <<"json", r>>

\* the lines write_records produces for a record list
Serialize(records) == [i \in 1..Len(records) |-> JsonLine(records[i])]

IsJson(line) == line[1] = "json"

RECURSIVE AfterHole(_)
\* what is left of the lines after a hole: the NUL bytes have no newline, so
\* they and the line that follows them are read as one line
AfterHole(lines) ==
    IF lines = <<>> THEN <<>>
    ELSE IF Head(lines) = <<"nul">> THEN AfterHole(Tail(lines))
    ELSE Tail(lines)

RECURSIVE ParseLines(_)
\* the loop of read_records: a blank line is skipped, a line json.loads
\* rejects is skipped (a line that starts with NUL bytes is one), the others
\* are appended in file order
ParseLines(lines) ==
    IF lines = <<>> THEN <<>>
    ELSE IF Head(lines) = <<"nul">> THEN ParseLines(AfterHole(lines))
    ELSE IF IsJson(Head(lines))
         THEN <<Head(lines)[2]>> \o ParseLines(Tail(lines))
         ELSE ParseLines(Tail(lines))

\* read_records: a missing file is the empty list; bytes that are not UTF-8
\* raise UnicodeDecodeError out of "for line in f", which the outer handler
\* turns into the empty list
ReadFile(file) ==
    IF ~file.exists THEN <<>>
    ELSE IF \E i \in 1..Len(file.lines) : file.lines[i] = <<"undecodable">>
         THEN <<>>
         ELSE ParseLines(file.lines)

\* read_records(filepath) on the current file system
read_records(filepath) == ReadFile(fs[filepath])

(* ------------------------------ the form ------------------------------ *)
FormFields ==
    {"registry_number", "last_name", "first_name", "father_name",
     "sibling_school", "notes", "street", "street_number", "postal_code", "city"}

\* the list "required" of the submit handler
RequiredFields ==
    <<"registry_number", "last_name", "first_name", "father_name",
      "street", "street_number", "postal_code", "city">>

\* a check that tests the fields as typed
AllRequiredAsTyped(form) ==
    \A i \in 1..Len(RequiredFields) : form[RequiredFields[i]] # <<>>

\* all(str(x).strip() for x in required)
AllRequired(form) ==
    \A i \in 1..Len(RequiredFields) : Strip(form[RequiredFields[i]]) # <<>>

\* the keys every stored record gets from the form, stripped, with the
\* school of the logged-in user
BaseRecord(rec_id, form, info) ==
    [k \in FormFields \cup {"id", "school", "school_code"} |->
        IF k = "id" THEN rec_id
        ELSE IF k = "school" THEN Get(info, "school_name", "Unknown School")
        ELSE IF k = "school_code" THEN Get(info, "school_code", "")
        ELSE Strip(form[k])]

\* the dict assigned to records[i] in the edit branch
EditedRecord(rec_id, form, info, t) ==
    BaseRecord(rec_id, form, info) @@ ("last_modified" :> IsoFormat(t))

\* the dict appended when the edit target is not found
FallbackRecord(form, info, t) ==
    BaseRecord(TimeId(t), form, info) @@ ("last_modified" :> IsoFormat(t))

\* a created record that keeps the fields as typed
CreatedRecordAsTyped(form, info, t) ==
    [k \in DOMAIN BaseRecord(TimeId(t), form, info) |->
        IF k \in FormFields THEN form[k] ELSE BaseRecord(TimeId(t), form, info)[k]]
    @@ ("created_at" :> IsoFormat(t))

\* the dict appended when no edit target is set
CreatedRecord(form, info, t) ==
    BaseRecord(TimeId(t), form, info) @@ ("created_at" :> IsoFormat(t))

\* the index of the last record whose str(id) equals str(rec_id), 0 if none
LastMatch(records, rec_id) ==
    LET hits == {i \in 1..Len(records) :
                    Str(Get(records[i], "id", None)) = Str(rec_id)}
    IN  IF hits = {} THEN 0 ELSE CHOOSE i \in hits : \A j \in hits : j <= i

\* the index of the first record whose str(id) equals str(rec_id), 0 if none
FirstMatch(records, rec_id) ==
    LET hits == {i \in 1..Len(records) :
                    Str(Get(records[i], "id", None)) = Str(rec_id)}
    IN  IF hits = {} THEN 0 ELSE CHOOSE i \in hits : \A j \in hits : i <= j

\* the branch the submit handler takes
SubmitKind(records, editing_record_id) ==
    IF Truthy(editing_record_id)
    THEN IF FirstMatch(records, editing_record_id) # 0 THEN "edit" ELSE "fallback"
    ELSE "create"

\* the record list the submit handler hands to write_records
Reconcile(records, editing_record_id, form, info, t) ==
    LET kind == SubmitKind(records, editing_record_id)
        i == FirstMatch(records, editing_record_id)
    IN  IF kind = "edit"
        THEN [records EXCEPT ![i] = EditedRecord(editing_record_id, form, info, t)]
        ELSE IF kind = "fallback"
             THEN Append(records, FallbackRecord(form, info, t))
             ELSE Append(records, CreatedRecord(form, info, t))

\* the list comprehension of the delete confirmation
WithoutId(records, rec_id) ==
    SelectSeq(records, LAMBDA r : Str(Get(r, "id", None)) # Str(rec_id))

(* ---------------------------- the selectbox --------------------------- *)
\* the key of a record in rec_map
Label(r) ==
    Get(r, "registry_number", <<>>) \o <<" ", "-", " ">>
        \o Get(r, "last_name", <<>>) \o <<" ">> \o Get(r, "first_name", <<>>)

RECURSIVE Keys(_)
\* list(rec_map.keys()): the labels in order of first occurrence
Keys(records) ==
    IF records = <<>> THEN <<>>
    ELSE LET rest == Keys(SubSeq(records, 1, Len(records) - 1))
             l == Label(records[Len(records)])
         IN  IF \E i \in 1..Len(rest) : rest[i] = l THEN rest ELSE Append(rest, l)

\* rec_map[label]: the identifier of the last record with that label
RecMap(records, label) ==
    LET hits == {i \in 1..Len(records) : Label(records[i]) = label}
        i == CHOOSE i \in hits : \A j \in hits : j <= i
    IN  Get(records[i], "id", None)

\* [""] + list(rec_map.keys())
Options(records) == <<<<>>>> \o Keys(records)

(* ------------------------- initial environment ------------------------ *)
Sessions == {1, 2}

UserA == <<"a">>

\* users.json
UserStore ==
    UserA :> [password_hash |-> hash_password("pwA"), file |-> <<"a.json">>,
              school_name |-> "School A", school_code |-> "01"]

InfoA == UserStore[UserA]

\* users.json with a second school, which has its own file
UserC == <<"c">>
UserStoreBoth ==
    UserStore @@
    (UserC :> [password_hash |-> hash_password("pwC"), file |-> <<"c.json">>,
               school_name |-> "School C", school_code |-> "02"])

FileNames == {UserStoreBoth[u].file : u \in DOMAIN UserStoreBoth}

TargetPaths == {Join(WRITE_DATA_DIR, n) : n \in FileNames}
BundledPaths == {Join(READONLY_DATA_DIR, n) : n \in FileNames}
Paths ==
    LET P == TargetPaths \cup BundledPaths IN P \cup {TmpOf(q) : q \in P}

\* the form whose submission the seeded data files hold
FormA == [k \in FormFields |-> <<"x">>]

\* the record a submission of FormA created at second 0, the second at which
\* the model starts
Rec0 == CreatedRecord(FormA, InfoA, 0)

\* the contents a data file may start with (no identifier occurs twice)
SeedMixed == FileOf(<<JsonLine(Rec0), <<"malformed">>, <<"blank">>>>)
SeedBinary == FileOf(<<JsonLine(Rec0), <<"undecodable">>>>)

\* the file system with the data file of the first school and its bundled
\* copy as given, and no file yet for any other school
FsWith(target, bundled) ==
    [q \in Paths |->
        IF q = Join(WRITE_DATA_DIR, InfoA.file) THEN target
        ELSE IF q = Join(READONLY_DATA_DIR, InfoA.file) THEN bundled
        ELSE NoFile]

InitSession ==
    [logged_in |-> FALSE, username |-> NoUser, editing_record_id |-> None,
     prefill |-> EmptyDict, to_delete_id |-> Missing,
     page |-> "login", options |-> <<>>, chosen |-> <<>>]

\* no write_records call under way; fd is the path at which the file the
\* call has open is found (<<>> when it has none, or the file has no name
\* any more), err the exception the call raised
NoJob ==
    [kind |-> "none", path |-> <<>>, records |-> <<>>, idx |-> 0,
     before |-> <<>>, old |-> NoFile, form |-> EmptyDict, rec_id |-> None,
     t |-> 0, fd |-> <<>>, err |-> "none"]

Init ==
    /\ users = UserStore
    /\ \E env \in { <<TRUE, NoFile, SeedMixed>>, <<TRUE, SeedBinary, NoFile>>,
                     <<FALSE, NoFile, NoFile>> } :
          /\ dataDirOk = env[1]
          /\ fs = FsWith(env[2], env[3])
    /\ now = 0
    /\ session = [s \in Sessions |-> InitSession]
    /\ pc = [s \in Sessions |-> "idle"]
    /\ job = [s \in Sessions |-> NoJob]
    /\ writes = 0

(* -------------------------- student_file_for -------------------------- *)
\* the directory student_file_for settles on: WRITE_DATA_DIR when makedirs
\* succeeds, the bundled read-only directory otherwise
TargetDir == IF dataDirOk THEN WRITE_DATA_DIR ELSE READONLY_DATA_DIR

\* the path student_file_for returns
student_file_for(username) == Join(TargetDir, FileNameFor(username))

\* the file system after student_file_for: a bundled copy is copied once to
\* a target that does not exist yet
CopyBundled(f, username) ==
    LET target == student_file_for(username)
        bundled == Join(READONLY_DATA_DIR, FileNameFor(username))
    IN  IF ~f[target].exists /\ f[bundled].exists
        THEN [f EXCEPT ![target] = f[bundled]]
        ELSE f

(* --------------------------- the right panel -------------------------- *)
\* the options of the selectbox as a script run shows them; no selectbox
\* is shown for an empty record list
ShownOptions(records) == IF records = <<>> THEN <<>> ELSE Options(records)

\* the value of the selectbox in a run: the widget keeps its value while its
\* options are the ones it was last shown with, and starts over at ""
\* otherwise
ChosenIn(ss, records) ==
    IF ShownOptions(records) = ss.options THEN ss.chosen ELSE <<>>

\* the session after a run of main_app has drawn the page from file system f
RenderMain(ss, f) ==
    LET records == ReadFile(f[student_file_for(ss.username)])
    IN  [ss EXCEPT !.page = "main",
                   !.options = ShownOptions(records),
                   !.chosen = ChosenIn(ss, records)]

\* a run of main_app can start: the page shows it and the user has an entry
InMain(s) ==
    /\ pc[s] = "idle"
    /\ session[s].page = "main"
    /\ session[s].logged_in
    /\ get_user_info(session[s].username) # EmptyDict

(* ------------------------------- login -------------------------------- *)
\* a login_action that does not look at the password
LoginUnverified(s, typed, password) ==
    /\ pc[s] = "idle"
    /\ session[s].page = "login"
    /\ ~session[s].logged_in
    /\ session' = [session EXCEPT ![s] =
            [@ EXCEPT !.logged_in = TRUE, !.username = Strip(typed),
                      !.editing_record_id = None]]
    /\ UNCHANGED <<fs, users, dataDirOk, now, pc, job, writes>>

\* show_login / login_action: the login form is submitted
Login(s, typed, password) ==
    /\ pc[s] = "idle"
    /\ session[s].page = "login"
    /\ ~session[s].logged_in
    /\ LET username == Strip(typed)
       IN  session' = [session EXCEPT ![s] =
                IF verify_user(username, password)
                THEN [@ EXCEPT !.logged_in = TRUE, !.username = username,
                               !.editing_record_id = None]
                ELSE @]
    /\ UNCHANGED <<fs, users, dataDirOk, now, pc, job, writes>>

\* app(): a script run in which no button is pressed
Rerun(s) ==
    /\ pc[s] = "idle"
    /\ session[s].logged_in
    /\ get_user_info(session[s].username) # EmptyDict
    /\ fs' = CopyBundled(fs, session[s].username)
    /\ session' = [session EXCEPT ![s] = RenderMain(@, fs')]
    /\ UNCHANGED <<users, dataDirOk, now, pc, job, writes>>

\* logout_action, from the sidebar button or from the header button of
\* main_app (which runs after student_file_for); the rerun shows the login
Logout(s, header) ==
    /\ pc[s] = "idle"
    /\ session[s].page = "main"
    /\ session[s].logged_in
    /\ header => get_user_info(session[s].username) # EmptyDict
    /\ fs' = IF header THEN CopyBundled(fs, session[s].username) ELSE fs
    /\ session' = [session EXCEPT ![s] =
            [@ EXCEPT !.logged_in = FALSE, !.username = NoUser,
                      !.editing_record_id = None, !.page = "login"]]
    /\ UNCHANGED <<users, dataDirOk, now, pc, job, writes>>

(* --------------------------- the entry form --------------------------- *)
\* the submit handler when a required field is empty: a warning, and the
\* run goes on to draw the right panel
SubmitRejected(s, form) ==
    /\ InMain(s)
    /\ ~AllRequired(form)
    /\ fs' = CopyBundled(fs, session[s].username)
    /\ session' = [session EXCEPT ![s] = RenderMain(@, fs')]
    /\ UNCHANGED <<users, dataDirOk, now, pc, job, writes>>

\* a submit handler that waits while another session's save is under way
SubmitUnderLock(s, form) ==
    /\ InMain(s)
    /\ \A t \in Sessions \ {s} : job[t].kind = "none"
    /\ writes < MaxWrites
    /\ AllRequired(form)
    /\ fs' = CopyBundled(fs, session[s].username)
    /\ LET ss == session[s]
           path == student_file_for(ss.username)
           records == ReadFile(fs'[path])
           info == get_user_info(ss.username)
           new == Reconcile(records, ss.editing_record_id, form, info, now)
       IN  /\ session' = [session EXCEPT ![s] =
                    IF Truthy(ss.editing_record_id)
                    THEN [@ EXCEPT !.editing_record_id = None]
                    ELSE @]
           /\ job' = [job EXCEPT ![s] =
                    [kind |-> SubmitKind(records, ss.editing_record_id),
                     path |-> path, records |-> new, idx |-> 0,
                     before |-> records, old |-> fs'[path], form |-> form,
                     rec_id |-> ss.editing_record_id, t |-> now,
                     fd |-> <<>>, err |-> "none"]]
    /\ pc' = [pc EXCEPT ![s] = "w_start"]
    /\ writes' = writes + 1
    /\ UNCHANGED <<users, dataDirOk, now>>

\* the submit handler up to its call of write_records
Submit(s, form) ==
    /\ InMain(s)
    /\ writes < MaxWrites
    /\ AllRequired(form)
    /\ fs' = CopyBundled(fs, session[s].username)
    /\ LET ss == session[s]
           path == student_file_for(ss.username)
           records == ReadFile(fs'[path])
           info == get_user_info(ss.username)
           new == Reconcile(records, ss.editing_record_id, form, info, now)
       IN  /\ session' = [session EXCEPT ![s] =
                    IF Truthy(ss.editing_record_id)
                    THEN [@ EXCEPT !.editing_record_id = None]
                    ELSE @]
           /\ job' = [job EXCEPT ![s] =
                    [kind |-> SubmitKind(records, ss.editing_record_id),
                     path |-> path, records |-> new, idx |-> 0,
                     before |-> records, old |-> fs'[path], form |-> form,
                     rec_id |-> ss.editing_record_id, t |-> now,
                     fd |-> <<>>, err |-> "none"]]
    /\ pc' = [pc EXCEPT ![s] = "w_start"]
    /\ writes' = writes + 1
    /\ UNCHANGED <<users, dataDirOk, now>>

\* the "clear form" button
ClearForm(s) ==
    /\ InMain(s)
    /\ fs' = CopyBundled(fs, session[s].username)
    /\ session' = [session EXCEPT ![s] =
            RenderMain([@ EXCEPT !.editing_record_id = None,
                                 !.prefill = EmptyDict], fs')]
    /\ UNCHANGED <<users, dataDirOk, now, pc, job, writes>>

(* ---------------------------- write_records --------------------------- *)
\* the places of a write_records call that is under way: "w_start" before
\* os.makedirs and open, "w_line" in the loop and before os.replace
WritePcs == {"w_start", "w_line"}

\* a write_records that opens the final path itself
OpenInPlace(f, filepath) == [f EXCEPT ![filepath] = FileOf(<<>>)]

\* the file system after open(tmp, "w"): the temporary file exists and is empty
OpenTmp(f, filepath) == [f EXCEPT ![TmpOf(filepath)] = FileOf(<<>>)]

\* os.makedirs(dirname, exist_ok=True), which leaves the files alone, and
\* open(tmp, "w")
WriteOpen(s) ==
    /\ pc[s] = "w_start"
    /\ fs' = OpenTmp(fs, job[s].path)
    /\ job' = [job EXCEPT ![s].fd = TmpOf(job[s].path)]
    /\ pc' = [pc EXCEPT ![s] = "w_line"]
    /\ UNCHANGED <<users, dataDirOk, now, session, writes>>

\* the lines of a file after a line is written at the place where a handle
\* stands, which is behind the n lines the handle has written: the line
\* there is overwritten, and a file that another open() has cut shorter
\* gets a hole up to that place
PutLine(lines, n, line) ==
    IF n < Len(lines) THEN [lines EXCEPT ![n + 1] = line]
    ELSE lines \o [j \in 1..(n - Len(lines)) |-> <<"nul">>] \o <<line>>

\* the file system after one more record is dumped to the file open at fd;
\* a file that has lost its name takes the line with it
DumpLine(f, fd, n, r) ==
    IF fd = <<>> THEN f
    ELSE [f EXCEPT ![fd] = FileOf(PutLine(@.lines, n, JsonLine(r)))]

\* one turn of "for r in records"
WriteLine(s) ==
    /\ pc[s] = "w_line"
    /\ job[s].idx < Len(job[s].records)
    /\ fs' = DumpLine(fs, job[s].fd, job[s].idx, job[s].records[job[s].idx + 1])
    /\ job' = [job EXCEPT ![s].idx = @ + 1]
    /\ UNCHANGED <<users, dataDirOk, now, session, pc, writes>>

\* the file system after os.replace(tmp, filepath)
Replace(f, filepath) ==
    [f EXCEPT ![filepath] = f[TmpOf(filepath)], ![TmpOf(filepath)] = NoFile]

\* the open files after session s has closed its own and renamed the
\* temporary file: a file another call has open under the temporary name is
\* now the final file, and one it has open under the final name has no name
Renamed(s) ==
    [t \in Sessions |->
        IF t = s THEN [job[t] EXCEPT !.fd = <<>>]
        ELSE IF job[t].fd = TmpOf(job[s].path) THEN [job[t] EXCEPT !.fd = job[s].path]
        ELSE IF job[t].fd = job[s].path THEN [job[t] EXCEPT !.fd = <<>>]
        ELSE job[t]]

\* the file is closed and os.replace(tmp, filepath) succeeds
WriteReplace(s) ==
    /\ pc[s] = "w_line"
    /\ job[s].idx = Len(job[s].records)
    /\ fs[TmpOf(job[s].path)].exists
    /\ fs' = Replace(fs, job[s].path)
    /\ job' = Renamed(s)
    /\ pc' = [pc EXCEPT ![s] = "written"]
    /\ UNCHANGED <<users, dataDirOk, now, session, writes>>

\* the file is closed and os.replace(tmp, filepath) raises FileNotFoundError:
\* another call has renamed the temporary file
WriteReplaceMissing(s) ==
    /\ pc[s] = "w_line"
    /\ job[s].idx = Len(job[s].records)
    /\ ~fs[TmpOf(job[s].path)].exists
    /\ job' = [job EXCEPT ![s].fd = <<>>, ![s].err = "FileNotFoundError"]
    /\ pc' = [pc EXCEPT ![s] = "stopped"]
    /\ UNCHANGED <<fs, users, dataDirOk, now, session, writes>>

\* a write_records that renames in a "finally": what was written so far
\* replaces the final file although the call stopped
WriteStopRenaming(s) ==
    /\ pc[s] \in WritePcs
    /\ fs' = IF fs[TmpOf(job[s].path)].exists THEN Replace(fs, job[s].path) ELSE fs
    /\ pc' = [pc EXCEPT ![s] = "stopped"]
    /\ UNCHANGED <<users, dataDirOk, now, session, job, writes>>

\* write_records stops at the step it is at: the step raises (makedirs,
\* open, a write, the close or os.replace) or the server process dies there;
\* nothing more is done to the files
WriteStop(s) ==
    /\ pc[s] \in WritePcs
    /\ pc' = [pc EXCEPT ![s] = "stopped"]
    /\ UNCHANGED <<fs, users, dataDirOk, now, session, job, writes>>

\* a handler that starts write_records over when it has raised
FailRetry(s) ==
    /\ pc[s] = "stopped"
    /\ pc' = [pc EXCEPT ![s] = "w_start"]
    /\ job' = [job EXCEPT ![s].idx = 0, ![s].fd = <<>>, ![s].err = "none"]
    /\ UNCHANGED <<fs, users, dataDirOk, now, session, writes>>

\* the step raised: the exception ends the script run and the page shows it
FailReturn(s) ==
    /\ pc[s] = "stopped"
    /\ pc' = [pc EXCEPT ![s] = "idle"]
    /\ job' = [job EXCEPT ![s] = NoJob]
    /\ UNCHANGED <<fs, users, dataDirOk, now, session, writes>>

\* a handler that returns after write_records without touching the session
AfterWriteKeepingPrefill(s) ==
    /\ pc[s] = "written"
    /\ fs' = CopyBundled(fs, session[s].username)
    /\ session' = [session EXCEPT ![s] = RenderMain(@, fs')]
    /\ pc' = [pc EXCEPT ![s] = "idle"]
    /\ job' = [job EXCEPT ![s] = NoJob]
    /\ UNCHANGED <<users, dataDirOk, now, writes>>

\* what follows write_records in the handler that called it, and the rerun
AfterWrite(s) ==
    /\ pc[s] = "written"
    /\ fs' = CopyBundled(fs, session[s].username)
    /\ session' = [session EXCEPT ![s] =
            RenderMain(IF job[s].kind = "delete"
                       THEN [@ EXCEPT !.to_delete_id = Missing]
                       ELSE [@ EXCEPT !.prefill = EmptyDict], fs')]
    /\ pc' = [pc EXCEPT ![s] = "idle"]
    /\ job' = [job EXCEPT ![s] = NoJob]
    /\ UNCHANGED <<users, dataDirOk, now, writes>>

\* the server process died: it is started again, every session starts from
\* the defaults of the session helpers, the files are as they were left
Restart ==
    /\ \E s \in Sessions : pc[s] = "stopped"
    /\ session' = [s \in Sessions |-> InitSession]
    /\ pc' = [s \in Sessions |-> "idle"]
    /\ job' = [s \in Sessions |-> NoJob]
    /\ UNCHANGED <<fs, users, dataDirOk, now, writes>>

(* ------------------- edit and delete of a stored record --------------- *)
\* what a run of the right panel works with: the records read at its start,
\* the selectbox value and the identifier rec_map gives for it
PanelRecords(s, f) == ReadFile(f[student_file_for(session[s].username)])
PanelChosen(s, f) == ChosenIn(session[s], PanelRecords(s, f))
PanelRecId(s, f) == RecMap(PanelRecords(s, f), PanelChosen(s, f))

\* "if chosen:" and "if rec:" both hold in the run
RecordChosen(s, f) ==
    /\ PanelChosen(s, f) # <<>>
    /\ FirstMatch(PanelRecords(s, f), PanelRecId(s, f)) # 0

\* the confirmation block is entered in the run
ConfirmShown(s, f) ==
    /\ PanelChosen(s, f) # <<>>
    /\ session[s].to_delete_id # Missing
    /\ session[s].to_delete_id = PanelRecId(s, f)

\* the user picks another entry of the selectbox
Select(s, label) ==
    /\ InMain(s)
    /\ \E i \in 1..Len(session[s].options) : session[s].options[i] = label
    /\ label # session[s].chosen
    /\ fs' = CopyBundled(fs, session[s].username)
    /\ session' = [session EXCEPT ![s] = RenderMain([@ EXCEPT !.chosen = label], fs')]
    /\ UNCHANGED <<users, dataDirOk, now, pc, job, writes>>

\* the "load for edit" button
LoadForEdit(s) ==
    /\ InMain(s)
    /\ fs' = CopyBundled(fs, session[s].username)
    /\ RecordChosen(s, fs')
    /\ LET records == PanelRecords(s, fs')
           rec_id == PanelRecId(s, fs')
           rec == records[FirstMatch(records, rec_id)]
       IN  session' = [session EXCEPT ![s] =
                RenderMain([@ EXCEPT !.editing_record_id = rec_id,
                                     !.prefill = rec], fs')]
    /\ UNCHANGED <<users, dataDirOk, now, pc, job, writes>>

\* the "delete" button: the record is marked, the confirmation is shown
PressDelete(s) ==
    /\ InMain(s)
    /\ fs' = CopyBundled(fs, session[s].username)
    /\ RecordChosen(s, fs')
    /\ session' = [session EXCEPT ![s] =
            RenderMain([@ EXCEPT !.to_delete_id = PanelRecId(s, fs')], fs')]
    /\ UNCHANGED <<users, dataDirOk, now, pc, job, writes>>

\* the "yes, delete" button up to its call of write_records
ConfirmDelete(s) ==
    /\ InMain(s)
    /\ writes < MaxWrites
    /\ fs' = CopyBundled(fs, session[s].username)
    /\ ConfirmShown(s, fs')
    /\ LET path == student_file_for(session[s].username)
           records == PanelRecords(s, fs')
           rec_id == PanelRecId(s, fs')
       IN  job' = [job EXCEPT ![s] =
                [kind |-> "delete", path |-> path,
                 records |-> WithoutId(records, rec_id), idx |-> 0,
                 before |-> records, old |-> fs'[path], form |-> EmptyDict,
                 rec_id |-> rec_id, t |-> now, fd |-> <<>>, err |-> "none"]]
    /\ session' = [session EXCEPT ![s] = RenderMain(@, fs')]
    /\ pc' = [pc EXCEPT ![s] = "w_start"]
    /\ writes' = writes + 1
    /\ UNCHANGED <<users, dataDirOk, now>>

\* the "cancel" button of the confirmation
CancelDelete(s) ==
    /\ InMain(s)
    /\ fs' = CopyBundled(fs, session[s].username)
    /\ ConfirmShown(s, fs')
    /\ session' = [session EXCEPT ![s] =
            RenderMain([@ EXCEPT !.to_delete_id = Missing], fs')]
    /\ UNCHANGED <<users, dataDirOk, now, pc, job, writes>>

(* ------------------------------- export ------------------------------ *)
\* the order of the keys in the dict literals of the submit handler; the
\* last key is last_modified or created_at, and json keeps the order
RecordKeyOrder ==
    <<"id", "registry_number", "last_name", "first_name", "father_name",
      "sibling_school", "notes", "school", "school_code", "street",
      "street_number", "postal_code", "city", "last_modified", "created_at">>

\* the keys of a stored record in the order the dict holds them
KeysOf(r) == SelectSeq(RecordKeyOrder, LAMBDA k : k \in DOMAIN r)

RECURSIVE Union(_, _)
\* cols followed by the keys of ks that are not in it yet
Union(cols, ks) ==
    IF ks = <<>> THEN cols
    ELSE IF \E j \in 1..Len(cols) : cols[j] = Head(ks)
         THEN Union(cols, Tail(ks))
         ELSE Union(Append(cols, Head(ks)), Tail(ks))

RECURSIVE DataFrameColumns(_)
\* the columns of pd.DataFrame(records): the keys in order of first
\* appearance over the records
DataFrameColumns(records) ==
    IF records = <<>> THEN <<>>
    ELSE Union(DataFrameColumns(SubSeq(records, 1, Len(records) - 1)),
               KeysOf(records[Len(records)]))

\* the cell of a record that lacks the key of the column
NaN == <<"NaN">>

\* export_to_excel_bytes: the sheet "Students" the bytes hold, a header row
\* with the column names of the frame and one row per record (index=False)
export_to_excel_bytes(records) ==
    LET cols == DataFrameColumns(records)
    IN  [sheet_name |-> "Students",
         header |-> cols,
         rows |-> [i \in 1..Len(records) |->
                     [j \in 1..Len(cols) |->
                         <<cols[j], Get(records[i], cols[j], NaN)>>]]]

\* the "export to Excel" button, shown when the file holds records: the
\* bytes go to the download button of this run
Export(s) ==
    /\ InMain(s)
    /\ fs' = CopyBundled(fs, session[s].username)
    /\ PanelRecords(s, fs') # <<>>
    /\ export_to_excel_bytes(PanelRecords(s, fs')).sheet_name = "Students"
    /\ session' = [session EXCEPT ![s] = RenderMain(@, fs')]
    /\ UNCHANGED <<users, dataDirOk, now, pc, job, writes>>

(* ------------------------------ the clock ----------------------------- *)
\* a second of wall-clock time passes
Tick ==
    /\ now < MaxTime
    /\ now' = now + 1
    /\ UNCHANGED <<fs, users, dataDirOk, session, pc, job, writes>>

(* ------------------------------- inputs ------------------------------- *)
\* a valid form with padded fields and the optional fields left empty
FormB ==
    [FormA EXCEPT !["registry_number"] = <<" ", "x", " ">>,
                  !["last_name"] = <<"y", " ">>,
                  !["sibling_school"] = <<>>,
                  !["notes"] = <<" ">>]

\* FormA with one required field left empty (odd places of the list) or
\* filled with a space (even places)
InvalidForms ==
    {[FormA EXCEPT ![RequiredFields[i]] = IF i % 2 = 1 THEN <<>> ELSE <<" ">>] :
        i \in 1..Len(RequiredFields)}

\* what the user submits: the valid form, which differs from the stored
\* record in its label, or a form that fails the required-field check
Forms == {FormB} \cup InvalidForms

TypedNames == {UserA, <<" ", "a", " ">>, <<"b">>}
Passwords == {"pwA", "bad"}

(* --------------------------- specification ---------------------------- *)
SessionStep(s) ==
    \/ \E typed \in TypedNames, password \in Passwords : Login(s, typed, password)
    \/ Rerun(s)
    \/ \E header \in BOOLEAN : Logout(s, header)
    \/ \E form \in Forms : SubmitRejected(s, form)
    \/ \E form \in Forms : Submit(s, form)
    \/ ClearForm(s)
    \/ WriteOpen(s)
    \/ WriteLine(s)
    \/ WriteReplace(s)
    \/ WriteStop(s)
    \/ FailReturn(s)
    \/ AfterWrite(s)
    \/ \E label \in {<<>>} \cup {Label(r) : r \in {Rec0} \cup
            {BaseRecord(None, form, InfoA) : form \in {FormA, FormB}}} :
          Select(s, label)
    \/ LoadForEdit(s)
    \/ PressDelete(s)
    \/ ConfirmDelete(s)
    \/ CancelDelete(s)
    \/ Export(s)

\* one browser session uses the application
Next ==
    \/ SessionStep(1)
    \/ Tick
    \/ Restart

Spec == Init /\ [][Next]_vars

\* a script run that has started goes on to its end: no step of
\* write_records and no return from it waits for the user
Progress(s) ==
    \/ WriteOpen(s)
    \/ WriteLine(s)
    \/ WriteReplace(s)
    \/ WriteStop(s)
    \/ FailReturn(s)
    \/ AfterWrite(s)

\* the form-to-store path of one session: the user logs in and submits the
\* form, valid or not, over and over
FormStep(s) ==
    \/ Login(s, UserA, "pwA")
    \/ Rerun(s)
    \/ \E form \in Forms : SubmitRejected(s, form)
    \/ \E form \in Forms : Submit(s, form)
    \/ Progress(s)

NextForm == FormStep(1) \/ Restart

SpecLive == Init /\ [][NextForm]_vars /\ WF_vars(Progress(1))

(* ------------------ two schools, one browser session ----------------- *)
\* the labels the selectbox can show
Labels ==
    {Label(r) : r \in {Rec0} \cup {BaseRecord(None, form, InfoA) : form \in Forms}}

\* users.json holds two schools; the first school's file comes from the
\* bundled copy
InitUsers ==
    /\ users = UserStoreBoth
    /\ dataDirOk = TRUE
    /\ fs = FsWith(NoFile, SeedMixed)
    /\ now = 0
    /\ session = [s \in Sessions |-> InitSession]
    /\ pc = [s \in Sessions |-> "idle"]
    /\ job = [s \in Sessions |-> NoJob]
    /\ writes = 0

\* the users of both schools log in and out of the same browser session
\* and work on records; no write fails
UserStep(s) ==
    \/ \E typed \in {UserA, UserC, <<"b">>}, password \in {"pwA", "pwC"} :
          Login(s, typed, password)
    \/ Rerun(s)
    \/ \E header \in BOOLEAN : Logout(s, header)
    \/ Submit(s, FormB)
    \/ WriteOpen(s)
    \/ WriteLine(s)
    \/ WriteReplace(s)
    \/ AfterWrite(s)
    \/ \E label \in Labels : Select(s, label)
    \/ LoadForEdit(s)
    \/ PressDelete(s)
    \/ ConfirmDelete(s)
    \/ Export(s)

NextUsers == UserStep(1)

SpecUsers == InitUsers /\ [][NextUsers]_vars

(* ------------------- two sessions on one school file ------------------ *)
\* the valid form session s submits: the sessions differ in the notes
FormFor(s) == [FormB EXCEPT !["notes"] = <<ToString(s)>>]

\* a script run or a step of write_records of session s, where the same
\* user is logged in from two browsers and both only add records
SharedStep(s) ==
    \/ Login(s, UserA, "pwA")
    \/ Rerun(s)
    \/ Submit(s, FormFor(s))
    \/ WriteOpen(s)
    \/ WriteLine(s)
    \/ WriteReplace(s)
    \/ WriteReplaceMissing(s)
    \/ FailReturn(s)
    \/ AfterWrite(s)

\* the server runs the script of either session, one thread per session
NextShared == \E s \in Sessions : SharedStep(s)

SpecShared == Init /\ [][NextShared]_vars

(* ============================== claims ================================ *)
\* the record list a file holds after, and held before, the write_records
\* call session s is in or has just left
FileNow(s) == fs[job[s].path]
FileBefore(s) == job[s].old
NewContent(s) == FileOf(Serialize(job[s].records))
InWrite(s) == pc[s] \in WritePcs \cup {"written", "stopped"}
IsSubmit(s) == job[s].kind \in {"create", "edit", "fallback"}

\* the identifiers of the records of a list
HasId(records, x) == \E i \in 1..Len(records) : Get(records[i], "id", None) = x

\* records with the i-th element left out
RemoveAt(records, i) ==
    SubSeq(records, 1, i - 1) \o SubSeq(records, i + 1, Len(records))

\* C1: at every step of write_records, and after a crash or a failure at any
\* step, the file at the final path is exactly the old content or exactly
\* the full serialization of the new records, and reading it gives the old
\* record list or the new one, never a prefix or a mix
C1_AtomicSave ==
    \A s \in Sessions :
        InWrite(s) =>
            /\ FileNow(s) \in {FileBefore(s), NewContent(s)}
            /\ ReadFile(FileNow(s)) \in {ReadFile(FileBefore(s)), job[s].records}
            /\ pc[s] # "written" => FileNow(s) = FileBefore(s)
            /\ pc[s] = "written" => FileNow(s) = NewContent(s)

\* C1 witness: write_records stopped after the first of two lines was
\* written to the temporary file, over a final file that holds other content
C1_Witness ==
    /\ pc[1] = "stopped"
    /\ Len(job[1].records) = 2
    /\ fs[TmpOf(job[1].path)] = FileOf(<<JsonLine(job[1].records[1])>>)
    /\ FileNow(1).exists
    /\ FileNow(1) # NewContent(1)

\* C2: after the save of a valid submission whose editing identifier is
\* that of a stored record R, the record in R's place has R's identifier
\* and R's created_at unchanged and has last_modified set
C2_EditKeepsIdAndCreation ==
    \A s \in Sessions :
        (pc[s] = "written" /\ IsSubmit(s) /\ Truthy(job[s].rec_id)
            /\ HasId(ReadFile(FileBefore(s)), job[s].rec_id)) =>
        LET before == ReadFile(FileBefore(s))
            after == ReadFile(FileNow(s))
            i == CHOOSE i \in 1..Len(before) :
                    /\ Get(before[i], "id", None) = job[s].rec_id
                    /\ \A j \in 1..(i - 1) : Get(before[j], "id", None) # job[s].rec_id
        IN  /\ Len(after) = Len(before)
            /\ Get(after[i], "id", None) = Get(before[i], "id", None)
            /\ Get(after[i], "created_at", None) = Get(before[i], "created_at", None)
            /\ "last_modified" \in DOMAIN after[i]

\* C3: no two records of a data file have the same identifier
C3_UniqueIds ==
    \A q \in TargetPaths \cup BundledPaths :
        LET records == ReadFile(fs[q])
        IN  \A i, j \in 1..Len(records) :
                i # j => Get(records[i], "id", None) # Get(records[j], "id", None)

\* C4: after the save of a valid submission made with no editing identifier
\* the file reads back as the previous record list followed by one record,
\* whose fields are the stripped inputs, with created_at and without
\* last_modified
C4_CreateAppendsOne ==
    \A s \in Sessions :
        (pc[s] = "written" /\ IsSubmit(s) /\ ~Truthy(job[s].rec_id)) =>
        LET before == ReadFile(FileBefore(s))
            after == ReadFile(FileNow(s))
            r == after[Len(after)]
        IN  /\ Len(after) = Len(before) + 1
            /\ SubSeq(after, 1, Len(before)) = before
            /\ \A k \in FormFields : k \in DOMAIN r /\ r[k] = Strip(job[s].form[k])
            /\ "created_at" \in DOMAIN r
            /\ "last_modified" \notin DOMAIN r

\* C4 witness: a record made from the padded form was appended to a file
\* that already held a record
C4_Witness ==
    /\ pc[1] = "written"
    /\ IsSubmit(1)
    /\ ~Truthy(job[1].rec_id)
    /\ job[1].form = FormB
    /\ Len(ReadFile(FileBefore(1))) >= 1
    /\ Len(ReadFile(FileNow(1))) = Len(ReadFile(FileBefore(1))) + 1

\* C5: after a confirmed deletion of the record with identifier X the file
\* holds the previous list with exactly one record, of identifier X, left
\* out
C5_DeleteRemovesOne ==
    \A s \in Sessions :
        (pc[s] = "written" /\ job[s].kind = "delete") =>
        LET before == ReadFile(FileBefore(s))
            after == ReadFile(FileNow(s))
        IN  /\ Len(after) = Len(before) - 1
            /\ \E i \in 1..Len(before) :
                    /\ Get(before[i], "id", None) = job[s].rec_id
                    /\ after = RemoveAt(before, i)

\* what a rejected submission must leave alone in a step
RejectionFrame(s) ==
    /\ fs' = fs
    /\ pc' = pc /\ job' = job /\ writes' = writes
    /\ session'[s].logged_in = session[s].logged_in
    /\ session'[s].username = session[s].username
    /\ session'[s].editing_record_id = session[s].editing_record_id
    /\ session'[s].prefill = session[s].prefill

\* C6: a submission with one of the eight required fields empty after
\* stripping never reaches write_records; a form whose optional fields alone
\* are empty is not rejected; and every step either leaves the files, the
\* write_records calls, the login, the edit target and the prefill alone or
\* is no rejection of a submission
C6_RejectedChangesNothing ==
    /\ [](\A s \in Sessions :
            IsSubmit(s) =>
                \A k \in {"registry_number", "last_name", "first_name",
                           "father_name", "street", "street_number",
                           "postal_code", "city"} :
                    Strip(job[s].form[k]) # <<>>)
    /\ [](\A s \in Sessions : ~ENABLED SubmitRejected(s, FormB))
    /\ [][\A s \in Sessions :
            RejectionFrame(s) \/ ~(\E form \in Forms : SubmitRejected(s, form))]_vars

\* C6 witness: a record is loaded for editing and the form can be submitted
\* with a required field left empty
C6_Witness ==
    /\ InMain(1)
    /\ Truthy(session[1].editing_record_id)
    /\ session[1].prefill # EmptyDict
    /\ fs[student_file_for(session[1].username)].exists
    /\ ENABLED (\E form \in InvalidForms : SubmitRejected(1, form))

\* C7: after the save of a valid submission whose editing identifier matches
\* no stored record, the file reads back as the previous record list
\* followed by one record made as a creation makes it: the stripped
\* inputs, created_at set and last_modified unset
C7_StaleEditCreates ==
    \A s \in Sessions :
        (pc[s] = "written" /\ IsSubmit(s) /\ Truthy(job[s].rec_id)
            /\ ~HasId(ReadFile(FileBefore(s)), job[s].rec_id)) =>
        LET before == ReadFile(FileBefore(s))
            after == ReadFile(FileNow(s))
            r == after[Len(after)]
        IN  /\ Len(after) = Len(before) + 1
            /\ SubSeq(after, 1, Len(before)) = before
            /\ \A k \in FormFields : k \in DOMAIN r /\ r[k] = Strip(job[s].form[k])
            /\ "id" \in DOMAIN r
            /\ "created_at" \in DOMAIN r
            /\ "last_modified" \notin DOMAIN r

\* the objects of the well-formed lines of a file, in file order
WellFormedRecords(file) ==
    LET good == SelectSeq(file.lines, LAMBDA l : l[1] = "json")
    IN  IF file.exists THEN [i \in 1..Len(good) |-> good[i][2]] ELSE <<>>

\* C8: whenever a handler has read the data file, the record list it got
\* from read_records is exactly the records of the well-formed lines of the
\* file, in file order, whatever malformed lines stand between them, and
\* the empty list for a missing file
C8_ReadSkipsMalformed ==
    \A s \in Sessions :
        job[s].kind # "none" => job[s].before = WellFormedRecords(FileBefore(s))

\* C9: when write_records has failed at any step, the file at the final
\* path is as it was before the call and reading it gives the record list
\* of before; what the call wrote is in the ".tmp" file only
C9_FailedWriteKeepsFile ==
    \A s \in Sessions :
        pc[s] = "stopped" =>
            /\ FileNow(s) = FileBefore(s)
            /\ ReadFile(FileNow(s)) = ReadFile(FileBefore(s))
            /\ \A q \in Paths \ {job[s].path, TmpOf(job[s].path)} :
                    q \in BundledPaths \/ ~fs[q].exists

\* C9 witness: a write failed after lines were written, the ".tmp" file is
\* left behind beside a final file that exists and holds other records
C9_Witness ==
    /\ pc[1] = "stopped"
    /\ FileNow(1).exists
    /\ fs[TmpOf(job[1].path)].exists
    /\ fs[TmpOf(job[1].path)].lines # <<>>
    /\ job[1].records # ReadFile(FileBefore(1))

\* C10: whenever a session is logged out, its user is unset, its edit
\* target is unset and its prefill is empty
C10_LogoutClearsSession ==
    \A s \in Sessions :
        ~session[s].logged_in =>
            /\ session[s].username = NoUser
            /\ session[s].editing_record_id = None
            /\ session[s].prefill = EmptyDict

\* C11: the step that ends a successful save (create, edit or stale-edit
\* fallback) and every press of "clear form" leave the session with no edit
\* target and an empty prefill; and a submission made with no edit target
\* is handled by the create branch
C11_CleanAfterSaveOrClear ==
    /\ [][\A s \in Sessions :
            ((pc[s] = "written" /\ IsSubmit(s) /\ pc'[s] = "idle") \/ ClearForm(s)) =>
                /\ ~Truthy(session'[s].editing_record_id)
                /\ session'[s].prefill = EmptyDict]_vars
    /\ [](\A s \in Sessions :
            (IsSubmit(s) /\ ~Truthy(job[s].rec_id)) => job[s].kind = "create")

\* C11 witness: the save of an edit has succeeded while the prefill still
\* holds the record that was loaded, and the cleanup is the next step
C11_Witness ==
    /\ pc[1] = "written"
    /\ job[1].kind = "edit"
    /\ session[1].prefill # EmptyDict
    /\ ENABLED AfterWrite(1)

\* the record a create or fallback submission of session s adds
Added(s) == job[s].records[Len(job[s].records)]

\* C12: the list a save writes is made from the list the handler read when
\* the form was submitted, whatever the file holds by then; no session's
\* save keeps another session from starting one; and the rename puts the
\* whole temporary file in the place of whatever the final file held
C12_LostUpdate ==
    /\ [](\A s \in Sessions :
            IsSubmit(s) =>
                job[s].records =
                    Reconcile(job[s].before, job[s].rec_id, job[s].form,
                              get_user_info(session[s].username), job[s].t))
    /\ [](\A s \in Sessions : \A t \in Sessions \ {s} :
            (job[s].kind # "none" /\ InMain(t) /\ writes < MaxWrites) =>
                ENABLED Submit(t, FormFor(t)))
    /\ [][\A s \in Sessions :
            (pc[s] = "w_line" /\ pc'[s] = "written") =>
                fs'[job[s].path] = fs[TmpOf(job[s].path)]]_vars

\* C12 witness: both sessions' write_records have returned, the file is what
\* session 2 wrote, and the record session 1 created is not in it
C12_Witness ==
    /\ pc[1] = "written" /\ pc[2] = "written"
    /\ job[1].kind = "create" /\ job[2].kind = "create"
    /\ job[1].err = "none" /\ job[2].err = "none"
    /\ fs[job[2].path] = NewContent(2)
    /\ \A i \in 1..Len(ReadFile(fs[job[1].path])) :
            ReadFile(fs[job[1].path])[i] # Added(1)

\* the column order of the export format
ExportOrder ==
    <<"registry_number", "last_name", "first_name", "street", "street_number",
      "postal_code", "city", "sibling_school", "notes">>

\* the keys that occur in some record of a list
AllKeys(records) == UNION {DOMAIN records[i] : i \in 1..Len(records)}

\* C13: the sheet exported for the records of the file has one row per
\* record, in the order of the list, each cell holding the record's value
\* for the column; its columns are the nine columns of the export format in
\* that order and then the remaining keys of the records; and the export run
\* changes no file and nothing of the session
C13_ExportSheet ==
    /\ [](\A s \in Sessions :
            (InMain(s) /\ PanelRecords(s, fs) # <<>>) =>
                LET records == PanelRecords(s, fs)
                    sheet == export_to_excel_bytes(records)
                    fixed == SelectSeq(ExportOrder, LAMBDA c : c \in AllKeys(records))
                IN  /\ Len(sheet.rows) = Len(records)
                    /\ \A i \in 1..Len(records) : \A j \in 1..Len(sheet.header) :
                            sheet.rows[i][j] =
                                <<sheet.header[j], Get(records[i], sheet.header[j], NaN)>>
                    /\ {sheet.header[j] : j \in 1..Len(sheet.header)} = AllKeys(records)
                    /\ Len(sheet.header) = Cardinality(AllKeys(records))
                    /\ SubSeq(sheet.header, 1, Len(fixed)) = fixed)
    /\ [][\A s \in Sessions :
            Export(s) => (fs' = fs /\ session' = session /\ job' = job)]_vars

\* C14: write_records is only ever under way for a form that passed the
\* required-field check; every session is idle again and again, so every
\* run that has left the idle state comes back to it; a write that has failed is not started over, the run ends with the
\* write count as it was; and the run that ends a submission, saved or
\* failed, leaves the session on the main page where the form can be
\* submitted again
C14_SubmitReturnsToIdle ==
    /\ [](\A s \in Sessions :
            (pc[s] # "idle" /\ IsSubmit(s)) => AllRequired(job[s].form))
    /\ \A s \in Sessions : []<>(pc[s] = "idle")
    /\ [][\A s \in Sessions :
            pc[s] = "stopped" =>
                (pc'[s] \in {"stopped", "idle"} /\ writes' = writes /\ fs' = fs)]_vars
    /\ [][\A s \in Sessions :
            (pc[s] \in {"written", "stopped"} /\ pc'[s] = "idle"
                /\ session'[s].logged_in) => InMain(s)']_vars

\* C14 witness: the write of a submission has failed and the run is about
\* to end with the error shown
C14_Witness ==
    /\ pc[1] = "stopped"
    /\ IsSubmit(1)
    /\ session[1].page = "main"
    /\ ENABLED FailReturn(1)

\* the places of the records of a list that have the identifier x
PlacesOf(records, x) ==
    {i \in 1..Len(records) : Str(Get(records[i], "id", None)) = Str(x)}

\* C15: after the save of an edit submission that targets a stored record,
\* the file holds as many records as before; the first record that had the
\* targeted identifier holds the stripped inputs under the same identifier,
\* and every other record, one with the same identifier included, is as it
\* was and where it was
C15_EditChangesOneRecord ==
    \A s \in Sessions :
        (pc[s] = "written" /\ job[s].kind = "edit") =>
        LET before == ReadFile(FileBefore(s))
            after == ReadFile(FileNow(s))
            hits == PlacesOf(before, job[s].rec_id)
        IN  /\ hits # {}
            /\ Len(after) = Len(before)
            /\ \A i \in 1..Len(before) :
                    IF i \in hits /\ \A j \in hits : i <= j
                    THEN /\ after[i]["id"] = job[s].rec_id
                         /\ \A k \in FormFields : after[i][k] = Strip(job[s].form[k])
                    ELSE after[i] = before[i]

\* C15 witness: an edit was saved to a file in which two records had the
\* targeted identifier; the first was replaced and the second is as before
C15_Witness ==
    /\ pc[1] = "written"
    /\ job[1].kind = "edit"
    /\ Cardinality(PlacesOf(ReadFile(FileBefore(1)), job[1].rec_id)) = 2
    /\ ReadFile(FileNow(1))[1] # ReadFile(FileBefore(1))[1]
    /\ ReadFile(FileNow(1))[2] = ReadFile(FileBefore(1))[2]

\* C16: a deletion is handed to write_records only in a run in which the
\* selected record is the one the pending-delete marker names, and the marker
\* is only ever set by the Delete button to the selected record; the Delete
\* button, the Cancel button and a change of selection write nothing; Cancel
\* removes the marker; and what a confirmed deletion takes out of the file
\* is one record, the selected one, which the marker names
C16_DeleteOnlyOnConfirm ==
    /\ [][\A s \in Sessions :
            (job[s].kind # "delete" /\ job'[s].kind = "delete") =>
                /\ session[s].to_delete_id # Missing
                /\ PanelChosen(s, fs) # <<>>
                /\ PanelRecId(s, fs) = session[s].to_delete_id
                /\ job'[s].rec_id = session[s].to_delete_id]_vars
    /\ [][\A s \in Sessions :
            (session'[s].to_delete_id # session[s].to_delete_id
                /\ session'[s].to_delete_id # Missing) =>
                /\ PressDelete(s)
                /\ session'[s].to_delete_id = PanelRecId(s, fs)]_vars
    /\ [][\A s \in Sessions :
            (PressDelete(s) \/ CancelDelete(s)
                \/ \E i \in 1..Len(session[s].options) : Select(s, session[s].options[i])) =>
                (fs' = fs /\ pc' = pc /\ job' = job /\ writes' = writes)]_vars
    /\ [][\A s \in Sessions :
            CancelDelete(s) => session'[s].to_delete_id = Missing]_vars
    /\ [](\A s \in Sessions :
            (pc[s] = "written" /\ job[s].kind = "delete") =>
                LET before == ReadFile(FileBefore(s))
                    after == ReadFile(FileNow(s))
                IN  \E i \in 1..Len(before) :
                        /\ Get(before[i], "id", None) = session[s].to_delete_id
                        /\ Label(before[i]) = session[s].chosen
                        /\ after = RemoveAt(before, i))

\* C17: with two sessions in write_records on the same file, no call ends in
\* an error, and every change of a data file that exists is the rename of one
\* call, which puts the complete serialization of that call's record list in
\* its place
C17_SharedTmpIsAtomic ==
    /\ [](\A s \in Sessions : job[s].err = "none")
    /\ [][\A q \in TargetPaths \cup BundledPaths :
            (fs[q].exists /\ fs'[q] # fs[q]) =>
                \E s \in Sessions :
                    /\ pc[s] = "w_line" /\ pc'[s] = "written"
                    /\ job[s].path = q
                    /\ fs'[q] = NewContent(s)]_vars

\* C18: when write_records has failed in an edit submission that targets a
\* stored record, the session's edit target is still that record's
\* identifier
C18_FailedEditKeepsTarget ==
    \A s \in Sessions :
        (pc[s] = "stopped" /\ job[s].kind = "edit") =>
            session[s].editing_record_id = job[s].rec_id

\* the records of the well-formed lines of the file before the save that
\* the file lacks after it
LostRecords(s) ==
    LET before == WellFormedRecords(FileBefore(s))
        after == WellFormedRecords(FileNow(s))
    IN  {i \in 1..Len(before) : \A j \in 1..Len(after) : after[j] # before[i]}

\* C19: after the save of a create, an edit or a fallback submission, every
\* record that a well-formed line of the file held before is still in the
\* file, but for the one record an edit replaces
C19_SaveKeepsOtherRecords ==
    \A s \in Sessions :
        (pc[s] = "written" /\ IsSubmit(s)) =>
            IF job[s].kind = "edit"
            THEN LostRecords(s) \subseteq
                    {FirstMatch(WellFormedRecords(FileBefore(s)), job[s].rec_id)}
            ELSE LostRecords(s) = {}

\* the data file users.json assigns to the user of session s, and the
\* paths a save of that user may touch
FileOfUser(s) == Join(TargetDir, users[session[s].username].file)
OwnPaths(s) == {FileOfUser(s), TmpOf(FileOfUser(s))}

\* C20: a session's login flag is set exactly when it has a username; the
\* flag is only ever set by a login step whose username is in the credential
\* store with the digest of the password that was typed; a call of
\* write_records is only under way for a logged-in session and on the file
\* of its user; every change of a file is to the file of a logged-in
\* session's user or to its temporary file; and the save, delete, load and
\* export runs only happen in a logged-in session, a load taking its record
\* from the file of the session's user
C20_LoginOwnsFile ==
    /\ [](\A s \in Sessions :
            session[s].logged_in <=> session[s].username # NoUser)
    /\ [][\A s \in Sessions :
            (~session[s].logged_in /\ session'[s].logged_in) =>
                /\ session'[s].username \in DOMAIN users
                /\ \E typed \in {UserA, UserC, <<"b">>}, password \in {"pwA", "pwC"} :
                        /\ Login(s, typed, password)
                        /\ users[session'[s].username].password_hash
                                = hash_password(password)]_vars
    /\ [](\A s \in Sessions :
            job[s].kind # "none" =>
                /\ session[s].logged_in
                /\ session[s].username \in DOMAIN users
                /\ job[s].path = FileOfUser(s))
    /\ [][\A q \in Paths :
            fs'[q] # fs[q] =>
                \E s \in Sessions :
                    /\ session[s].logged_in
                    /\ session[s].username \in DOMAIN users
                    /\ q \in OwnPaths(s)]_vars
    /\ [][\A s \in Sessions :
            (LoadForEdit(s) \/ PressDelete(s) \/ ConfirmDelete(s) \/ Export(s)
                \/ Submit(s, FormB)) =>
                /\ session[s].logged_in
                /\ session[s].username \in DOMAIN users
                /\ LoadForEdit(s) =>
                        \E i \in 1..Len(ReadFile(fs[FileOfUser(s)])) :
                            session'[s].prefill = ReadFile(fs[FileOfUser(s)])[i]]_vars

\* C20 witness: the user of the second school has logged in to the session
\* the first school's user worked in, and a save of theirs has gone to
\* their own file while the first school's file exists
C20_Witness ==
    /\ pc[1] = "written"
    /\ session[1].username = UserC
    /\ job[1].path = Join(WRITE_DATA_DIR, UserStoreBoth[UserC].file)
    /\ fs[job[1].path] = NewContent(1)
    /\ fs[Join(WRITE_DATA_DIR, InfoA.file)].exists
    /\ session[1].prefill # EmptyDict

====
